---- MODULE Spec2Model ----
(***************************************************************************)
(* The activity worker of workflow-goclient (package activity).            *)
(*                                                                         *)
(* One invocation of Worker.Do is modelled: the coordinator (the goroutine *)
(* that called Do), the heartbeat goroutine, the goroutine that runs the   *)
(* caller's WorkerFunc, and the updatePercentComplete goroutine.  Time is  *)
(* discrete: one Tick is one time unit.                                    *)
(*                                                                         *)
(* Go's select is modelled as the runtime executes it.  A goroutine that   *)
(* reaches a select with one or more cases ready takes one of them, any    *)
(* one; with none ready it parks, and the first event that makes a case    *)
(* ready (a sender arriving, the context being cancelled, a timer firing)  *)
(* hands that case to the parked goroutine.  The statements of a goroutine *)
(* between two blocking points form one step, but for a receive on pc: the *)
(* sender runs on as soon as the value is handed over, so what the         *)
(* receiver does with the value is a step of its own.                      *)
(***************************************************************************)
EXTENDS Integers, Sequences, FiniteSets, TLC

\* ------------------------------------------------------------------ bounds

\* Largest configured duration, in ticks.  0 is Go's zero value (unset).
MaxDuration == 1
\* Ticks in one minute.
Minute == 2
\* The heartbeat call counter saturates here.
MaxHeartbeats == 2
\* Most values a WorkerFunc sends on pc.
MaxSends == 2
\* The clock of the clocked specification stops here.
MaxNow == 4
\* Most successive Do calls on one Worker.
MaxInvocations == 2
\* The goroutines that call Do on one Worker at the same time.
MaxCallers == 3
\* Most constructor calls in the process.
MaxClients == 3

Durations == 0..MaxDuration
\* Durations are signed: a negative one can be configured as well.
SignedDurations == {-1} \cup Durations
\* The count of ticks spent in the inner select saturates here.
MaxElapsed == Minute + MaxDuration

\* --------------------------------------------------------------- constants

defaultHeartbeatInterval == 1 * Minute
defaultCancellationTimeout == 1 * Minute
timeoutErrorMessage == "Work cancelled after timeout"
completedMessage == "Work completed successfully"
cancelledReason == "Cancel requested"

\* ------------------------------------------------------------------ values

\* An argument an operation does not take.
NoArg == "<no argument>"
\* Go's nil, as a result value and as a heartbeat record.
Nil == "<nil>"

\* Results a WorkerFunc may return.
Results == {Nil, "the result"}
\* Error values a WorkerFunc may return; NilErr is the nil error.
NilErr == 0
Errors == {1, 2}

\* err.Error()
ErrorString(err) ==
    CASE err = 1 -> "Some error"
      [] err = 2 -> "Some cancellation error"

\* What f(childCtx, pc) may return: (result, err), every combination.
WorkOutcomes == [result : Results, err : Errors \cup {NilErr}]
NotReturned == [result |-> Nil, err |-> -1]

\* What HeartbeatActivityWithToken may return: a heartbeat record (nil, or one
\* with its Cancelled flag) and an error (nil or not).
HeartbeatRecords ==
    {[isNil |-> TRUE, Cancelled |-> FALSE],
     [isNil |-> FALSE, Cancelled |-> FALSE],
     [isNil |-> FALSE, Cancelled |-> TRUE]}
HeartbeatResponses == [hb : HeartbeatRecords, err : BOOLEAN]

\* Values a WorkerFunc may send on pc: any int, valid as a percentage or not.
PercentValues == {-1, 30, 60}

VARIABLES
    HeartbeatInterval,    \* Worker.HeartbeatInterval
    CancellationTimeout,  \* Worker.CancellationTimeout
    variant,              \* the source file of the Worker that runs
    parentDone,           \* ctx, the caller's context, is cancelled
    childDone,            \* childCtx is cancelled
    cpc,                  \* where the coordinator (Do) is
    sel,                  \* the select cases the coordinator has taken, in order
    reports,              \* the terminal report calls issued, in order
    reportErr,            \* what the terminal report call returned
    wpc,                  \* where the work goroutine is
    wout,                 \* what f returned
    wRetCancelled,        \* childCtx was cancelled when f returned
    wRetAt,               \* now, when f returned
    hpc,                  \* where the heartbeat goroutine is
    hbLeft,               \* ticks until the ticker fires next; 0: no ticker runs
    tickBuf,              \* heartbeats.C (capacity 1) holds a tick
    hbCalls,              \* HeartbeatActivityWithToken calls issued
    hbCancels,            \* responses that had Cancelled = true: 0, 1, or 2 for several
    hbErrCalls,           \* hbCalls when a transport error was last returned
    graceLeft,            \* ticks until the time.After timer fires
    graceElapsed,         \* ticks since the coordinator entered the inner select
    graceReceived,        \* Len(received) on entry to the inner select, until the report returns
    now,                  \* ticks since Do was called, where the clock is kept
    fpc,                  \* where the updatePercentComplete goroutine is
    percentComplete,      \* the value updatePercentComplete received last
    lastPercentComplete,  \* updatePercentComplete's lastPercentComplete
    received,             \* the values received from pc, in order
    updates,              \* the values passed to UpdateActivityPercentComplete
    updateErr,            \* "error": the last UpdateActivityPercentComplete call failed and no value was compared since (where it is kept)
    invocation,           \* the number of the Do call that runs, counted from 1
    prevLast,             \* lastPercentComplete of the invocation before, when it ended
    kpc,                  \* where the workflow.Client operation in progress is
    call,                 \* the Client operation called, with its arguments
    tokenResult,          \* what c.tokenFetcher.Token returned
    requests,             \* the requests handed to the generated client, in order
    answer,               \* what the API answered
    ret,                  \* what the Client operation returned
    Logger,               \* Worker.Logger
    entry,                \* where each caller of Do is in Do's first lines
    workLog,              \* the logger each caller's workLog was derived from
    discarding,           \* the loggers whose handler is the DiscardHandler
    loggerWrites,         \* the callers that have assigned Worker.Logger
    DefaultTimeout,       \* openapiclient.DefaultTimeout, a package-level variable
    clients               \* the constructor calls made in the process, in order

vars == <<HeartbeatInterval, CancellationTimeout, variant, parentDone, childDone, cpc, sel,
          reports, reportErr, wpc, wout, wRetCancelled, hpc, hbLeft, tickBuf,
          hbCalls, hbCancels, hbErrCalls, graceLeft, graceElapsed,
          fpc, percentComplete, lastPercentComplete, received, updates,
          updateErr, invocation, prevLast,
          wRetAt, graceReceived, now, kpc, call, tokenResult, requests, answer, ret,
          Logger, entry, workLog, discarding, loggerWrites, DefaultTimeout, clients>>

config == <<HeartbeatInterval, CancellationTimeout, variant>>
coordVars == <<cpc, sel, reports, reportErr>>
workVars == <<wpc, wout, wRetCancelled, wRetAt>>
hbVars == <<hpc, hbLeft, tickBuf, hbCalls, hbCancels, hbErrCalls>>
progVars == <<fpc, percentComplete, lastPercentComplete, received, updates, updateErr>>
graceVars == <<graceLeft, graceElapsed, graceReceived>>
ctxVars == <<parentDone, childDone>>
clientVars == <<kpc, call, tokenResult, requests, answer, ret>>
workerVars == <<config, now, ctxVars, coordVars, workVars, hbVars, progVars, graceVars>>
doVars == <<invocation, prevLast>>
loggerVars == <<Logger, entry, workLog, discarding, loggerWrites>>
pkgVars == <<DefaultTimeout, clients>>
\* What no step of one invocation of Do changes.
outsideVars == <<clientVars, doVars, loggerVars, pkgVars>>

Min(a, b) == IF a < b THEN a ELSE b

\* Some heartbeat response had Cancelled = true.
hbCancelSeen == hbCancels > 0

\* ------------------------------------------------------------ configuration

heartbeatIntervalUnlessZero ==
    IF HeartbeatInterval = 0 THEN defaultHeartbeatInterval ELSE HeartbeatInterval

\* heartbeat: the interval the ticker is made with.
heartbeatInterval ==
    IF HeartbeatInterval > 0 THEN HeartbeatInterval ELSE defaultHeartbeatInterval

\* handleCancellation: the grace timeout given to time.After.
cancellationTimeout ==
    IF CancellationTimeout > 0 THEN CancellationTimeout ELSE defaultCancellationTimeout

\* ------------------------------------------------------- workflow.Client

\* The interface's operations.
ClientOps ==
    {"StartWorkflow", "Workflow", "CancelWorkflow", "SignalWorkflow",
     "UpdateActivity", "UpdateActivityPercentComplete",
     "CompleteSuccessfulActivity", "CompleteCancelledActivity",
     "CompleteFailedActivity", "HeartbeatActivity", "HeartbeatActivityWithToken"}

\* The operations that return a result besides the error.
ResultOps == ClientOps \ {"CancelWorkflow", "SignalWorkflow"}

WorkflowIDs == {"my-workflow"}
ActivityIDs == {"activity-1", "activity-2"}
Reasons == {cancelledReason, "boom"}
Details == {"", timeoutErrorMessage}

\* Values passed as the result interface{}; s holds a string's characters, or
\* those of the field Foo of a struct{ Foo string }.  A channel has no JSON.
GoChars == {"a", "\"", "\\", "<"}
GoStrings == {<<>>} \cup {<<c>> : c \in GoChars} \cup {<<"a", "\"">>}
GoNil == [kind |-> "nil", s |-> <<>>]
GoValues ==
    {GoNil, [kind |-> "chan", s |-> <<>>]}
        \cup [kind : {"string", "struct"}, s : GoStrings]

\* An int is 64 bits wide.  It is kept as its two 32-bit words: hi, the upper
\* word, and lo, the lower word read as a signed 32-bit integer; its value is
\* hi * 2^32 + lo where lo >= 0, and (hi + 1) * 2^32 + lo where lo < 0.
\* Int64(v) is the int whose value is v, for v of 32 bits.
Int64(v) == [hi |-> IF v < 0 THEN -1 ELSE 0, lo |-> v]

\* The values passed as percentComplete: those a WorkerFunc sends on pc are
\* any int.  The last three are 2^32 + 30, 2^31 and -2^32 + 60.
Percents ==
    {Int64(v) : v \in PercentValues \cup {0, 100}}
        \cup {[hi |-> 1, lo |-> 30], [hi |-> 0, lo |-> -2147483647 - 1],
              [hi |-> -2, lo |-> 60]}

\* int32(v): the lower word.
Int32(v) == v.lo

\* encoding/json's string encoding: quotes and backslashes are escaped, and so
\* is the character <, as \u003c.
RECURSIVE Escape(_)
Escape(str) ==
    IF str = <<>> THEN <<>>
    ELSE (CASE Head(str) \in {"\"", "\\"} -> <<"\\", Head(str)>>
            [] Head(str) = "<" -> <<"\\", "u", "0", "0", "3", "c">>
            [] OTHER -> <<Head(str)>>) \o Escape(Tail(str))

Quote(str) == <<"\"">> \o Escape(str) \o <<"\"">>

MarshalError == 3

\* json.Marshal(v): the bytes and the error.
Marshal(v) ==
    CASE v.kind = "nil" -> [bytes |-> <<"n", "u", "l", "l">>, err |-> NilErr]
      [] v.kind = "string" -> [bytes |-> Quote(v.s), err |-> NilErr]
      [] v.kind = "struct" ->
            [bytes |-> <<"{">> \o Quote(<<"F", "o", "o">>) \o <<":">> \o Quote(v.s) \o <<"}">>,
             err |-> NilErr]
      [] OTHER -> [bytes |-> <<>>, err |-> MarshalError]

\* models.ActivityError, and the nil *models.ActivityError
ActivityError(reason, details) == [isNil |-> FALSE, Reason |-> reason, Details |-> details]
NoActivityError == [isNil |-> TRUE, Reason |-> "", Details |-> ""]

\* models.Activity
Activity(id, status, percent, result, error) ==
    [kind |-> "Activity", ID |-> id, Status |-> status, PercentComplete |-> percent,
     Result |-> result, Error |-> error]

\* A call of an operation: the arguments an operation does not take are zero.
NewCall(op) ==
    [op |-> op, workflowID |-> "", activityID |-> "", taskToken |-> "",
     reason |-> "", details |-> "", result |-> GoNil, percentComplete |-> Int64(0),
     activity |-> Activity("", "", 0, <<>>, NoActivityError)]

\* No operation of the Client has been called.
NoCall == NewCall("none")

\* The calls made of the Client.
Calls ==
    {[NewCall(op) EXCEPT !.workflowID = w] :
        op \in {"StartWorkflow", "Workflow", "CancelWorkflow", "SignalWorkflow"},
        w \in WorkflowIDs}
    \cup {[NewCall("UpdateActivity") EXCEPT !.workflowID = w,
              !.activity = Activity(a, "Running", 30, <<>>, NoActivityError)] :
            w \in WorkflowIDs, a \in ActivityIDs}
    \cup {[NewCall("UpdateActivityPercentComplete") EXCEPT !.workflowID = w,
              !.activityID = a, !.percentComplete = v] :
            w \in WorkflowIDs, a \in ActivityIDs, v \in Percents}
    \cup {[NewCall("CompleteSuccessfulActivity") EXCEPT !.workflowID = w,
              !.activityID = a, !.result = v] :
            w \in WorkflowIDs, a \in ActivityIDs, v \in GoValues}
    \cup {[NewCall(op) EXCEPT !.workflowID = w, !.activityID = a,
              !.reason = r, !.details = d] :
            op \in {"CompleteCancelledActivity", "CompleteFailedActivity"},
            w \in WorkflowIDs, a \in ActivityIDs, r \in Reasons, d \in Details}
    \cup {[NewCall("HeartbeatActivity") EXCEPT !.workflowID = w, !.activityID = a] :
            w \in WorkflowIDs, a \in ActivityIDs}
    \cup {[NewCall("HeartbeatActivityWithToken") EXCEPT !.taskToken = "task-token",
              !.activityID = a, !.details = d] :
            a \in ActivityIDs, d \in Details}

\* The operation has not returned.
NotReturnedYet == [result |-> Nil, err |-> -1]

\* What tokenFetcher.Token(c.audience) returns.
TokenResults == [token : {"token"}, err : {NilErr}] \cup [token : {""}, err : Errors]

\* The token fetcher has not been asked.
NoToken == [token |-> "", err |-> -1]

\* What the API does with a request: it answers with a status, or the
\* connection fails.
ApiAnswers == [status : {200, 400, 500}, transport : {FALSE}]
                  \cup {[status |-> 0, transport |-> TRUE]}

\* The API has not answered.
NoAnswer == [status |-> -1, transport |-> FALSE]

TransportErr == 4
Payload == "the payload"

\* The generated client's operation: the response and the error for the API's
\* answer.  An answer with an error status gives an error and no response.
OperationResponse(a) ==
    IF a.transport
       THEN [response |-> Nil, err |-> TransportErr]
       ELSE IF a.status = 200
               THEN [response |-> Payload, err |-> NilErr]
               ELSE [response |-> Nil, err |-> a.status]

\* The result returned with an error: "" by StartWorkflow, nil by the others.
ZeroResult(op) == IF op = "StartWorkflow" THEN "" ELSE Nil

\* UpdateActivityPercentComplete: updatedActivity
updatedActivity(c) ==
    Activity(c.activityID, "Running", Int32(c.percentComplete), <<>>, NoActivityError)

completedActivityKeepsPercent(c, resultBytes) ==
    Activity(c.activityID, "Completed", 0, resultBytes, NoActivityError)

\* CompleteSuccessfulActivity: completedActivity
completedActivity(c, resultBytes) ==
    Activity(c.activityID, "Completed", 100, resultBytes, NoActivityError)

cancelledActivitySwapped(c) ==
    Activity(c.activityID, "Cancelled", 0, <<>>, ActivityError(c.details, c.reason))

\* CompleteCancelledActivity: cancelledActivity
cancelledActivity(c) ==
    Activity(c.activityID, "Cancelled", 0, <<>>, ActivityError(c.reason, c.details))

\* CompleteFailedActivity: failedActivity
failedActivity(c) ==
    Activity(c.activityID, "Failed", 0, <<>>, ActivityError(c.reason, c.details))

\* HeartbeatActivityWithToken: heartbeat
heartbeat(c) ==
    [kind |-> "Heartbeat", TaskToken |-> c.taskToken, ActivityID |-> c.activityID,
     Details |-> c.details, Cancelled |-> FALSE]

NoBody == [kind |-> "none"]

\* The params each operation builds for the generated client.
Params(c) ==
    CASE c.op = "StartWorkflow" ->
            [operation |-> "StartWorkflow", ID |-> "", ActivityID |-> "",
             body |-> [kind |-> "PostWorkflow"]]
      [] c.op = "Workflow" ->
            [operation |-> "GetWorkflow", ID |-> c.workflowID, ActivityID |-> "",
             body |-> NoBody]
      [] c.op = "CancelWorkflow" ->
            [operation |-> "CancelWorkflow", ID |-> c.workflowID, ActivityID |-> "",
             body |-> NoBody]
      [] c.op = "SignalWorkflow" ->
            [operation |-> "SignalWorkflow", ID |-> c.workflowID, ActivityID |-> "",
             body |-> [kind |-> "Signal"]]
      [] c.op = "UpdateActivity" ->
            [operation |-> "UpdateActivity", ID |-> c.workflowID,
             ActivityID |-> c.activity.ID, body |-> c.activity]
      [] c.op = "UpdateActivityPercentComplete" ->
            [operation |-> "UpdateActivity", ID |-> c.workflowID,
             ActivityID |-> c.activityID, body |-> updatedActivity(c)]
      [] c.op = "CompleteSuccessfulActivity" ->
            [operation |-> "UpdateActivity", ID |-> c.workflowID,
             ActivityID |-> c.activityID,
             body |-> completedActivity(c, Marshal(c.result).bytes)]
      [] c.op = "CompleteCancelledActivity" ->
            [operation |-> "UpdateActivity", ID |-> c.workflowID,
             ActivityID |-> c.activityID, body |-> cancelledActivity(c)]
      [] c.op = "CompleteFailedActivity" ->
            [operation |-> "UpdateActivity", ID |-> c.workflowID,
             ActivityID |-> c.activityID, body |-> failedActivity(c)]
      [] c.op = "HeartbeatActivity" ->
            [operation |-> "HeartbeatActivity", ID |-> c.workflowID,
             ActivityID |-> c.activityID, body |-> NoBody]
      [] c.op = "HeartbeatActivityWithToken" ->
            [operation |-> "Heartbeat", ID |-> "", ActivityID |-> "",
             body |-> heartbeat(c)]

\* The call of the generated client's operation, with openapiclient.BearerToken(token).
Request(c, token) == [params |-> Params(c), authInfo |-> token]

\* The error that stops an operation before its request: only
\* CompleteSuccessfulActivity has one, json.Marshal's.
PrepareErr(c) ==
    IF c.op = "CompleteSuccessfulActivity" THEN Marshal(c.result).err ELSE NilErr

TokenFailedNever(t) == FALSE

\* if err != nil, after c.tokenFetcher.Token(c.audience)
TokenFailed(t) == t.err # NilErr

ClientReturnLogsOnly(op, r) ==
    [result |-> IF r.err # NilErr \/ op \notin ResultOps THEN ZeroResult(op) ELSE r.response,
     err |-> NilErr]

\* What an operation returns once the generated client's operation has
\* returned r: the error and no result, or the response's Payload.
ClientReturn(op, r) ==
    IF r.err # NilErr
       THEN [result |-> ZeroResult(op), err |-> r.err]
       ELSE [result |-> IF op \in ResultOps THEN r.response ELSE Nil, err |-> NilErr]

\* An operation of the Client is called.
ClientCall(c) ==
    /\ kpc = "idle"
    /\ call' = c
    /\ kpc' = "token"
    /\ UNCHANGED <<tokenResult, requests, answer, ret>>
    /\ UNCHANGED <<workerVars, doVars, loggerVars, pkgVars>>

\* The token fetcher returns t: on its error the operation returns it; else the
\* operation builds its params, which may fail, and calls the generated client.
TokenReturn(t) ==
    /\ kpc = "token"
    /\ tokenResult' = t
    /\ IF TokenFailed(t)
          THEN /\ ret' = [result |-> ZeroResult(call.op), err |-> t.err]
               /\ kpc' = "returned"
               /\ UNCHANGED requests
          ELSE IF PrepareErr(call) # NilErr
                  THEN /\ ret' = [result |-> ZeroResult(call.op), err |-> PrepareErr(call)]
                       /\ kpc' = "returned"
                       /\ UNCHANGED requests
                  ELSE /\ requests' = Append(requests, Request(call, t.token))
                       /\ kpc' = "requesting"
                       /\ UNCHANGED ret
    /\ UNCHANGED <<call, answer>>
    /\ UNCHANGED <<workerVars, doVars, loggerVars, pkgVars>>

\* The generated client's operation returns, and so does the Client's.
OperationReturn(a) ==
    /\ kpc = "requesting"
    /\ answer' = a
    /\ ret' = ClientReturn(call.op, OperationResponse(a))
    /\ kpc' = "returned"
    /\ UNCHANGED <<call, tokenResult, requests>>
    /\ UNCHANGED <<workerVars, doVars, loggerVars, pkgVars>>

\* ------------------------------------------------------- the constructors

\* openapiclient.DefaultTimeout as the library sets it, in seconds.
LibraryDefault == 30
\* The retryTimeout values given to NewClientWithRetry, in seconds.
RetryTimeouts == {5, 60}

Construction == [retry : BOOLEAN, timeout : RetryTimeouts \cup {LibraryDefault}, panicked : BOOLEAN]

\* newClient: url.Parse of an apiGatewayURL that is not valid makes it panic
\* before anything is assigned; otherwise defaultRequestTimeout is assigned to
\* openapiclient.DefaultTimeout and the client is built.
newClient(retry, defaultRequestTimeout, valid) ==
    /\ Len(clients) < MaxClients
    /\ clients' = Append(clients, [retry |-> retry, timeout |-> defaultRequestTimeout,
                                   panicked |-> ~valid])
    /\ DefaultTimeout' = IF valid THEN defaultRequestTimeout ELSE DefaultTimeout
    /\ UNCHANGED <<workerVars, clientVars, doVars, loggerVars>>

NewClientRestoresDefault(valid) == newClient(FALSE, LibraryDefault, valid)

\* NewClient passes the value openapiclient.DefaultTimeout has when it is called.
NewClient(valid) == newClient(FALSE, DefaultTimeout, valid)

NewClientWithRetry(retryTimeout, valid) == newClient(TRUE, retryTimeout, valid)

\* ------------------------------------------------------- the entry of Do

Callers == 1..MaxCallers
\* w.Logger == nil
NoLogger == 0
\* The Logger the Worker was made with; the logger caller c makes is c.
GivenLogger == MaxCallers + 1

\* Caller c calls Do.
CallDo(c) ==
    /\ entry[c] = "out"
    /\ entry' = [entry EXCEPT ![c] = "check"]
    /\ UNCHANGED <<Logger, workLog, discarding, loggerWrites>>
    /\ UNCHANGED <<workerVars, clientVars, doVars, pkgVars>>

\* if w.Logger == nil
CheckLogger(c) ==
    /\ entry[c] = "check"
    /\ entry' = [entry EXCEPT ![c] = IF Logger = NoLogger THEN "assign" ELSE "derive"]
    /\ UNCHANGED <<Logger, workLog, discarding, loggerWrites>>
    /\ UNCHANGED <<workerVars, clientVars, doVars, pkgVars>>

\* w.Logger = log.New(): a write no lock guards.  Callers that write at the
\* same time leave the logger of one of them in the field, as do writes one
\* after the other, in either order.
AssignLogger(c) ==
    /\ entry[c] = "assign"
    /\ Logger' = c
    /\ loggerWrites' = loggerWrites \cup {c}
    /\ entry' = [entry EXCEPT ![c] = "sethandler"]
    /\ UNCHANGED <<workLog, discarding>>
    /\ UNCHANGED <<workerVars, clientVars, doVars, pkgVars>>

\* w.Logger.SetHandler(log.DiscardHandler()), on the logger the field holds now.
SetHandler(c) ==
    /\ entry[c] = "sethandler"
    /\ discarding' = discarding \cup {Logger}
    /\ entry' = [entry EXCEPT ![c] = "derive"]
    /\ UNCHANGED <<Logger, workLog, loggerWrites>>
    /\ UNCHANGED <<workerVars, clientVars, doVars, pkgVars>>

\* workLog := w.Logger.New(...)
DeriveWorkLog(c) ==
    /\ entry[c] = "derive"
    /\ workLog' = [workLog EXCEPT ![c] = Logger]
    /\ entry' = [entry EXCEPT ![c] = "entered"]
    /\ UNCHANGED <<Logger, discarding, loggerWrites>>
    /\ UNCHANGED <<workerVars, clientVars, doVars, pkgVars>>

\* ------------------------------------------------------- the terminal calls

\* A terminal report call, with what is known when it is issued: whether f had
\* returned, and the ticks spent parked in the inner select (-1: not parked there).
Report(op, result, reason, details, returned) ==
    [op |-> op, result |-> result, reason |-> reason, details |-> details,
     workReturned |-> returned,
     elapsed |-> IF cpc = "cancelParked" THEN graceElapsed ELSE -1]

FailedReportSwapped(err) ==
    Report("CompleteFailedActivity", NoArg, "", ErrorString(err), TRUE)

\* Do, case err := <-ec
FailedReport(err) ==
    Report("CompleteFailedActivity", NoArg, ErrorString(err), "", TRUE)

SuccessReportDropsResult(result) ==
    Report("CompleteSuccessfulActivity", Nil, NoArg, NoArg, TRUE)

\* Do, case result := <-rc
SuccessReport(result) ==
    Report("CompleteSuccessfulActivity", result, NoArg, NoArg, TRUE)

\* handleCancellation, case err := <-ec
CancelledWithErrorReport(err) ==
    Report("CompleteCancelledActivity", NoArg, cancelledReason, ErrorString(err), TRUE)

\* handleCancellation, case <-rc
CancelledCompletedReport ==
    Report("CompleteCancelledActivity", NoArg, cancelledReason, completedMessage, TRUE)

\* handleCancellation, case <-time.After(cancellationTimeout)
CancelledTimeoutReport ==
    Report("CompleteCancelledActivity", NoArg, cancelledReason, timeoutErrorMessage,
           wpc # "running")

\* ------------------------------------------------------------- Init

\* Do has been called: its channels are made and its goroutines spawned.
Invoked ==
    /\ childDone = parentDone
    /\ cpc = "select"
    /\ sel = <<>>
    /\ reports = <<>>
    /\ reportErr = "none"
    /\ wpc = "running"
    /\ wout = NotReturned
    /\ wRetCancelled = FALSE
    /\ hpc = "init"
    /\ hbLeft = 0
    /\ tickBuf = FALSE
    /\ hbCalls = 0
    /\ hbCancels = 0
    /\ hbErrCalls = 0
    /\ wRetAt = 0
    /\ graceLeft = 0
    /\ graceElapsed = 0
    /\ graceReceived = 0
    /\ now = 0
    /\ fpc = "range"
    /\ percentComplete = -1
    /\ lastPercentComplete = -1
    /\ received = <<>>
    /\ updates = <<>>
    /\ updateErr = "none"
    /\ invocation = 1
    /\ prevLast = -1
    /\ kpc = "idle"
    /\ call = NoCall
    /\ tokenResult = NoToken
    /\ requests = <<>>
    /\ answer = NoAnswer
    /\ ret = NotReturnedYet
    /\ entry = [c \in Callers |-> "out"]
    /\ workLog = [c \in Callers |-> NoLogger]
    /\ discarding = {}
    /\ loggerWrites = {}
    /\ DefaultTimeout = LibraryDefault
    /\ clients = <<>>

\* Do of the Worker of part_001, made with a Logger, has been called.
Started == Invoked /\ variant = "part_001" /\ Logger = GivenLogger

Init ==
    /\ HeartbeatInterval \in Durations
    /\ CancellationTimeout \in Durations
    /\ parentDone \in BOOLEAN
    /\ Started

\* ------------------------------------------------------ the coordinator (Do)

SendCaseAlwaysRc(out) == "rc"

\* The channel the work goroutine sends f's outcome on.
SendCase(out) == IF out.err # NilErr THEN "ec" ELSE "rc"

\* The cases of Do's select that can proceed.
OuterReady ==
    (IF childDone THEN {"ctxDone"} ELSE {})
        \cup (IF wpc = "sending" THEN {SendCase(wout)} ELSE {})

\* The call a case of Do's select issues.
OuterReport(c, out) ==
    IF c = "ec" THEN FailedReport(out.err) ELSE SuccessReport(out.result)

\* Do takes case c of its select; out is what the work goroutine sent.
TakeOuter(c, out) ==
    /\ sel' = Append(sel, c)
    /\ reportErr' = reportErr
    /\ IF c = "ctxDone"
          THEN cpc' = "cancelEntry" /\ reports' = reports
          ELSE cpc' = "reporting" /\ reports' = Append(reports, OuterReport(c, out))

\* worker.go, handleCancellation: CompleteCancelledActivity takes the IDs and
\* one text, err.Error(), "" or timeoutErrorMessage.
CancelledReport3(c, out) ==
    Report("CompleteCancelledActivity", NoArg, NoArg,
           CASE c = "ec" -> ErrorString(out.err)
             [] c = "rc" -> ""
             [] c = "timeout" -> timeoutErrorMessage,
           c # "timeout" \/ wpc # "running")

\* The call a case of handleCancellation's select issues.
InnerReport(c, out) ==
    IF variant = "worker.go"
       THEN CancelledReport3(c, out)
       ELSE CASE c = "ec" -> CancelledWithErrorReport(out.err)
              [] c = "rc" -> CancelledCompletedReport
              [] c = "timeout" -> CancelledTimeoutReport

TakeInnerSilentTimeout(c, out) ==
    /\ sel' = Append(sel, c)
    /\ reportErr' = reportErr
    /\ cpc' = "reporting"
    /\ reports' = IF c = "timeout" THEN reports ELSE Append(reports, InnerReport(c, out))

\* handleCancellation takes case c of its select.
TakeInner(c, out) ==
    /\ sel' = Append(sel, c)
    /\ reportErr' = reportErr
    /\ cpc' = "reporting"
    /\ reports' = Append(reports, InnerReport(c, out))

\* Do reaches its select: it takes a case that can proceed, or parks.
CoordSelect ==
    /\ cpc = "select"
    /\ IF OuterReady = {}
          THEN /\ cpc' = "parked"
               /\ UNCHANGED <<sel, reports, reportErr, workVars>>
          ELSE \E c \in OuterReady :
                 /\ TakeOuter(c, wout)
                 /\ wpc' = IF c = "ctxDone" THEN wpc ELSE "exited"
                 /\ UNCHANGED <<wout, wRetCancelled, wRetAt>>
    /\ UNCHANGED <<config, now, outsideVars, progVars, ctxVars, hbVars, graceVars>>

\* handleCancellation reaches its select: the work goroutine's pending send is
\* taken, or the timer is started and the coordinator parks.
CoordHandleCancellation ==
    /\ cpc = "cancelEntry"
    /\ IF wpc = "sending"
          THEN /\ TakeInner(SendCase(wout), wout)
               /\ wpc' = "exited"
               /\ UNCHANGED <<wout, wRetCancelled, wRetAt, graceVars>>
          ELSE /\ cpc' = "cancelParked"
               /\ graceLeft' = cancellationTimeout
               /\ graceElapsed' = 0
               /\ graceReceived' = Len(received)
               /\ UNCHANGED <<sel, reports, reportErr, workVars>>
    /\ UNCHANGED <<config, now, outsideVars, progVars, ctxVars, hbVars>>

TimerFiredEarly == graceLeft <= 1

TimerNeverFires == FALSE

\* The time.After timer is due.
TimerFired == graceLeft = 0

\* The timer fires and hands the parked coordinator its case.

TimerFire ==
    /\ cpc = "cancelParked"
    /\ TimerFired
    /\ TakeInner("timeout", wout)
    /\ UNCHANGED <<config, now, outsideVars, progVars, ctxVars, workVars, hbVars, graceVars>>

AfterReportNoStop == "done"

\* Where Do goes once the terminal report call has returned: to stop <- struct{}{}.
AfterReport == "stopSend"

ReportReturnGivesUpOnError(e) ==
    /\ cpc = "reporting"
    /\ reportErr' = e
    /\ cpc' = IF e = "error" THEN "done" ELSE AfterReport
    /\ graceReceived' = 0
    /\ UNCHANGED <<sel, reports, graceLeft, graceElapsed>>
    /\ UNCHANGED <<config, now, outsideVars, progVars, ctxVars, workVars, hbVars>>

\* The terminal report call returns, with an error or without.

ReportReturn(e) ==
    /\ cpc = "reporting"
    /\ reportErr' = e
    /\ cpc' = AfterReport
    /\ graceReceived' = 0
    /\ UNCHANGED <<sel, reports, graceLeft, graceElapsed>>
    /\ UNCHANGED <<config, now, outsideVars, progVars, ctxVars, workVars, hbVars>>

CancelChildRestartsGrace ==
    /\ childDone' = TRUE
    /\ IF cpc = "parked" /\ ~childDone
          THEN TakeOuter("ctxDone", wout)
          ELSE IF cpc = "cancelParked"
                  THEN cpc' = "cancelEntry" /\ UNCHANGED <<sel, reports, reportErr>>
                  ELSE UNCHANGED coordVars

\* cancelFunc(), or the parent's cancellation reaching childCtx: a coordinator
\* parked in Do's select is handed the ctx.Done case.
CancelChild ==
    /\ childDone' = TRUE
    /\ IF cpc = "parked" /\ ~childDone
          THEN TakeOuter("ctxDone", wout)
          ELSE UNCHANGED coordVars

\* The caller cancels the context it passed to Do.
ParentCancel ==
    /\ ~parentDone
    /\ parentDone' = TRUE
    /\ CancelChild
    /\ UNCHANGED <<config, now, outsideVars, progVars, workVars, hbVars, graceVars>>

\* --------------------------------------------------------- the work goroutine

\* f returns out and the goroutine sends it: a parked coordinator receives it at
\* once, otherwise the goroutine blocks in its send.
WorkReturn(out) ==
    /\ wpc = "running"
    /\ wout' = out
    /\ wRetCancelled' = childDone
    /\ wRetAt' = now
    /\ IF cpc = "parked"
          THEN TakeOuter(SendCase(out), out) /\ wpc' = "exited"
          ELSE IF cpc = "cancelParked"
                  THEN TakeInner(SendCase(out), out) /\ wpc' = "exited"
                  ELSE wpc' = "sending" /\ UNCHANGED coordVars
    /\ UNCHANGED <<config, now, outsideVars, progVars, ctxVars, hbVars, graceVars>>

\* --------------------------------------------------------- the heartbeat loop

CancelOnAnyRecord(resp) == ~resp.hb.isNil

CancelUnlessError(resp) == ~resp.err /\ ~resp.hb.isNil /\ resp.hb.Cancelled

\* heartbeat: if hb != nil && hb.Cancelled
CancelRequested(resp) == ~resp.hb.isNil /\ resp.hb.Cancelled

\* A transport error: an error and no heartbeat record.
TransportError(resp) == resp.err /\ resp.hb.isNil

HbStartSendsAtOnce ==
    /\ hpc = "init"
    /\ hpc' = "calling"
    /\ hbCalls' = 1
    /\ hbLeft' = heartbeatInterval
    /\ UNCHANGED <<tickBuf, hbCancels, hbErrCalls>>
    /\ UNCHANGED <<config, now, outsideVars, progVars, ctxVars, coordVars, workVars, graceVars>>

\* The heartbeat goroutine starts: it makes its ticker.
HbStart ==
    /\ hpc = "init"
    /\ hpc' = "select"
    /\ hbLeft' = heartbeatInterval
    /\ UNCHANGED <<tickBuf, hbCalls, hbCancels, hbErrCalls>>
    /\ UNCHANGED <<config, now, outsideVars, progVars, ctxVars, coordVars, workVars, graceVars>>

\* case <-heartbeats.C: the HeartbeatActivityWithToken call is issued.
SendHeartbeat ==
    /\ hpc' = "calling"
    /\ hbCalls' = Min(hbCalls + 1, MaxHeartbeats)

ReceiveStopBuffered ==
    /\ hpc' = hpc
    /\ hbLeft' = hbLeft
    /\ cpc' = "done"

\* case <-stop: the loop returns (the deferred Stop ends the ticker), and the
\* coordinator's send completes: Do returns.
ReceiveStop ==
    /\ hpc' = "exited"
    /\ hbLeft' = 0
    /\ cpc' = "done"

HbReadyStopFirst ==
    IF cpc = "stopSend" THEN {"stop"} ELSE IF tickBuf THEN {"tick"} ELSE {}

\* The cases of the heartbeat loop's select that can proceed.
HbReady ==
    (IF tickBuf THEN {"tick"} ELSE {}) \cup (IF cpc = "stopSend" THEN {"stop"} ELSE {})

\* The loop reaches its select: it takes a case that can proceed, or parks.
HbSelect ==
    /\ hpc = "select"
    /\ IF HbReady = {}
          THEN /\ hpc' = "parked"
               /\ UNCHANGED <<hbLeft, tickBuf, hbCalls, cpc>>
          ELSE \E c \in HbReady :
                 IF c = "tick"
                    THEN SendHeartbeat /\ tickBuf' = FALSE /\ UNCHANGED <<hbLeft, cpc>>
                    ELSE ReceiveStop /\ UNCHANGED <<tickBuf, hbCalls>>
    /\ UNCHANGED <<hbCancels, hbErrCalls, sel, reports, reportErr>>
    /\ UNCHANGED <<config, now, outsideVars, progVars, ctxVars, workVars, graceVars>>

HbExitsOnError(resp) == IF resp.err THEN "exited" ELSE "select"

\* Where the loop goes once a heartbeat call has returned.
HbAfterResponse(resp) == "select"

\* The HeartbeatActivityWithToken call returns resp.
HbReturn(resp) ==
    /\ hpc = "calling"
    /\ hpc' = HbAfterResponse(resp)
    /\ hbErrCalls' = IF TransportError(resp) THEN hbCalls ELSE hbErrCalls
    /\ hbCancels' = IF ~resp.hb.isNil /\ resp.hb.Cancelled
                       THEN Min(hbCancels + 1, 2)
                       ELSE hbCancels
    /\ IF CancelRequested(resp)
          THEN CancelChild
          ELSE UNCHANGED <<childDone, coordVars>>
    /\ UNCHANGED <<hbLeft, tickBuf, hbCalls, parentDone>>
    /\ UNCHANGED <<config, now, outsideVars, progVars, workVars, graceVars>>

CoordStopWithoutReceiver ==
    /\ cpc = "stopSend"
    /\ cpc' = "done"
    /\ hpc' = IF hpc = "parked" THEN "exited" ELSE hpc
    /\ hbLeft' = IF hpc = "parked" THEN 0 ELSE hbLeft
    /\ UNCHANGED <<tickBuf, hbCalls, hbCancels, hbErrCalls>>
    /\ UNCHANGED <<sel, reports, reportErr>>
    /\ UNCHANGED <<config, now, outsideVars, progVars, ctxVars, workVars, graceVars>>

\* The coordinator's stop <- struct{}{} reaches a parked heartbeat loop.
CoordStop ==
    /\ cpc = "stopSend"
    /\ hpc = "parked"
    /\ ReceiveStop
    /\ UNCHANGED <<tickBuf, hbCalls, hbCancels, hbErrCalls>>
    /\ UNCHANGED <<sel, reports, reportErr>>
    /\ UNCHANGED <<config, now, outsideVars, progVars, ctxVars, workVars, graceVars>>

\* ------------------------------------------------- the progress forwarder

WorkSendRestartsGrace(v) ==
    /\ wpc = "running"
    /\ fpc = "range"
    /\ Len(received) < MaxSends
    /\ fpc' = "received"
    /\ percentComplete' = v
    /\ received' = Append(received, v)
    /\ graceLeft' = IF cpc = "cancelParked" THEN cancellationTimeout ELSE graceLeft
    /\ UNCHANGED <<lastPercentComplete, updates, updateErr, graceElapsed, graceReceived>>
    /\ UNCHANGED <<config, now, outsideVars, ctxVars, coordVars, workVars, hbVars>>

\* f sends v on pc.  pc is unbuffered: the send completes when
\* updatePercentComplete is at its range, which receives v.  The sender runs on
\* at once; what the receiver does with v is a later step of its own goroutine.
WorkSend(v) ==
    /\ wpc = "running"
    /\ fpc = "range"
    /\ Len(received) < MaxSends
    /\ fpc' = "received"
    /\ percentComplete' = v
    /\ received' = Append(received, v)
    /\ UNCHANGED <<lastPercentComplete, updates, updateErr>>
    /\ UNCHANGED <<config, now, outsideVars, ctxVars, coordVars, workVars, hbVars, graceVars>>

ForwardsWhenGreater(v, last) == v > last

ForwardsPercentages(v, last) == v # last /\ v >= 0 /\ v <= 100

\* updatePercentComplete: if percentComplete != lastPercentComplete
Forwards(v, last) == v # last

ForwarderCompareUntilReturn ==
    /\ fpc = "received"
    /\ cpc # "done"
    /\ IF Forwards(percentComplete, lastPercentComplete)
          THEN fpc' = "calling" /\ updates' = Append(updates, percentComplete)
          ELSE fpc' = "range" /\ UNCHANGED updates
    /\ updateErr' = "none"
    /\ UNCHANGED <<percentComplete, lastPercentComplete, received>>
    /\ UNCHANGED <<config, now, outsideVars, ctxVars, coordVars, workVars, hbVars, graceVars>>

\* The loop body: UpdateActivityPercentComplete is called with a value that
\* differs from lastPercentComplete; an equal value is only logged.
ForwarderCompare ==
    /\ fpc = "received"
    /\ IF Forwards(percentComplete, lastPercentComplete)
          THEN fpc' = "calling" /\ updates' = Append(updates, percentComplete)
          ELSE fpc' = "range" /\ UNCHANGED updates
    /\ updateErr' = "none"
    /\ UNCHANGED <<percentComplete, lastPercentComplete, received>>
    /\ UNCHANGED <<config, now, outsideVars, ctxVars, coordVars, workVars, hbVars, graceVars>>

UpdateReturnForgetsOnError(e) ==
    /\ fpc = "calling"
    /\ lastPercentComplete' = IF e = "error" THEN lastPercentComplete ELSE percentComplete
    /\ fpc' = "range"
    /\ UNCHANGED <<percentComplete, received, updates>>
    /\ UNCHANGED <<config, now, outsideVars, ctxVars, coordVars, workVars, hbVars, graceVars>>

\* The UpdateActivityPercentComplete call returns, with an error (which is
\* logged) or without; the value is remembered either way.  Whether the error
\* is kept in updateErr is left to the specification.
UpdateReturn(e) ==
    /\ fpc = "calling"
    /\ lastPercentComplete' = percentComplete
    /\ fpc' = "range"
    /\ UNCHANGED <<percentComplete, received, updates>>
    /\ UNCHANGED <<config, now, outsideVars, ctxVars, coordVars, workVars, hbVars, graceVars>>

\* ------------------------------------------------------ the next invocation

NextDoKeepsLast(done) ==
    /\ invocation < MaxInvocations
    /\ cpc = "done" /\ wpc = "exited" /\ hpc = "exited" /\ fpc = "range"
    /\ invocation' = invocation + 1
    /\ prevLast' = lastPercentComplete
    /\ parentDone' = done /\ childDone' = done
    /\ cpc' = "select" /\ sel' = <<>> /\ reports' = <<>> /\ reportErr' = "none"
    /\ wpc' = "running" /\ wout' = NotReturned /\ wRetCancelled' = FALSE /\ wRetAt' = 0
    /\ hpc' = "init" /\ hbLeft' = 0 /\ tickBuf' = FALSE
    /\ hbCalls' = 0 /\ hbCancels' = 0 /\ hbErrCalls' = 0
    /\ graceLeft' = 0 /\ graceElapsed' = 0 /\ graceReceived' = 0
    /\ now' = 0
    /\ fpc' = "range" /\ percentComplete' = -1 /\ lastPercentComplete' = lastPercentComplete
    /\ received' = <<>> /\ updates' = <<>> /\ updateErr' = "none"
    /\ UNCHANGED <<config, clientVars, loggerVars, pkgVars>>

\* Do is called again on the same Worker, with a context that is cancelled or
\* not, once the call before has returned and the goroutines it left behind can
\* take no further step (its forwarder stays parked on a channel nobody holds).
\* The call makes new channels and a new context and spawns new goroutines;
\* updatePercentComplete starts with lastPercentComplete := -1.
NextDo(done) ==
    /\ invocation < MaxInvocations
    /\ cpc = "done" /\ wpc = "exited" /\ hpc = "exited" /\ fpc = "range"
    /\ invocation' = invocation + 1
    /\ prevLast' = lastPercentComplete
    /\ parentDone' = done /\ childDone' = done
    /\ cpc' = "select" /\ sel' = <<>> /\ reports' = <<>> /\ reportErr' = "none"
    /\ wpc' = "running" /\ wout' = NotReturned /\ wRetCancelled' = FALSE /\ wRetAt' = 0
    /\ hpc' = "init" /\ hbLeft' = 0 /\ tickBuf' = FALSE
    /\ hbCalls' = 0 /\ hbCancels' = 0 /\ hbErrCalls' = 0
    /\ graceLeft' = 0 /\ graceElapsed' = 0 /\ graceReceived' = 0
    /\ now' = 0
    /\ fpc' = "range" /\ percentComplete' = -1 /\ lastPercentComplete' = -1
    /\ received' = <<>> /\ updates' = <<>> /\ updateErr' = "none"
    /\ UNCHANGED <<config, clientVars, loggerVars, pkgVars>>

\* ----------------------------------------------------------------- time

\* One tick passes.  A timer that is due fires before time moves on.  The
\* ticker, when due, hands its tick to a parked heartbeat loop or leaves it in
\* its channel (capacity 1: a tick that finds the channel full is dropped).
TimePasses ==
    /\ ~(cpc = "cancelParked" /\ TimerFired)
    /\ IF cpc = "cancelParked"
          THEN /\ graceLeft' = IF graceLeft > 0 THEN graceLeft - 1 ELSE graceLeft
               /\ graceElapsed' = Min(graceElapsed + 1, MaxElapsed)
               /\ UNCHANGED graceReceived
          ELSE UNCHANGED graceVars
    /\ IF hbLeft = 0
          THEN UNCHANGED <<hpc, hbLeft, tickBuf, hbCalls>>
          ELSE IF hbLeft > 1
                  THEN hbLeft' = hbLeft - 1 /\ UNCHANGED <<hpc, tickBuf, hbCalls>>
                  ELSE /\ hbLeft' = heartbeatInterval
                       /\ IF hpc = "parked"
                             THEN SendHeartbeat /\ UNCHANGED tickBuf
                             ELSE tickBuf' = TRUE /\ UNCHANGED <<hpc, hbCalls>>
    /\ UNCHANGED <<hbCancels, hbErrCalls>>
    /\ UNCHANGED <<config, outsideVars, progVars, ctxVars, coordVars, workVars>>

\* One tick passes, the clock not being kept.
Tick == TimePasses /\ UNCHANGED now

\* One tick passes and the clock, kept up to MaxNow, advances.
ClockTick == now < MaxNow /\ TimePasses /\ now' = now + 1

\* ----------------------------------------------------------------- Next

WorkFinishes == \E out \in WorkOutcomes : WorkReturn(out)
HeartbeatAnswers == \E resp \in HeartbeatResponses : HbReturn(resp)
ReportAnswers == \E e \in {"nil", "error"} : ReportReturn(e)

Next ==
    \/ CoordSelect
    \/ CoordHandleCancellation
    \/ TimerFire
    \/ ReportAnswers
    \/ CoordStop
    \/ ParentCancel
    \/ WorkFinishes
    \/ HbStart
    \/ HbSelect
    \/ HeartbeatAnswers
    \/ Tick

Spec == Init /\ [][Next]_vars

\* An invocation of a Worker configured with any duration, a negative one
\* included, on a context that is not cancelled yet.
ConfigInit ==
    /\ HeartbeatInterval \in SignedDurations
    /\ CancellationTimeout \in SignedDurations
    /\ parentDone = FALSE
    /\ Started

ConfigSpec == ConfigInit /\ [][Next]_vars

\* An invocation on a context that is not cancelled yet, with the time since Do
\* started kept in now.
TimedInit ==
    /\ HeartbeatInterval \in Durations
    /\ CancellationTimeout = 1
    /\ parentDone = FALSE
    /\ Started

TimedNext ==
    \/ CoordSelect
    \/ CoordHandleCancellation
    \/ TimerFire
    \/ ReportAnswers
    \/ CoordStop
    \/ ParentCancel
    \/ WorkFinishes
    \/ HbStart
    \/ HbSelect
    \/ HeartbeatAnswers
    \/ ClockTick

TimedSpec == TimedInit /\ [][TimedNext]_vars

\* An invocation of the Worker of src/activity/worker.go.
WorkerGoInit ==
    /\ HeartbeatInterval \in Durations
    /\ CancellationTimeout \in Durations
    /\ parentDone \in BOOLEAN
    /\ Invoked
    /\ variant = "worker.go"
    /\ Logger = GivenLogger

WorkerGoSpec == WorkerGoInit /\ [][Next]_vars

WorkSends == \E v \in PercentValues : WorkSend(v)
\* The call returns; what it returned is not kept.
UpdateAnswers == \E e \in {"nil", "error"} : UpdateReturn(e) /\ UNCHANGED updateErr

\* The call returns; an error it returned is kept until the next comparison.
UpdateAnswersKept ==
    \E e \in {"nil", "error"} :
        UpdateReturn(e) /\ updateErr' = IF e = "error" THEN "error" ELSE "none"

\* An invocation whose WorkerFunc reports progress on pc.
ProgressNext ==
    \/ Next
    \/ WorkSends
    \/ ForwarderCompare
    \/ UpdateAnswers

\* The durations are set to one tick each: the forwarder reads neither.
ProgressInit ==
    /\ Init
    /\ HeartbeatInterval = 1
    /\ CancellationTimeout = 1

ProgressSpec == ProgressInit /\ [][ProgressNext]_vars

\* The values a WorkerFunc may send on pc, a chan int: the ones above and two
\* that are no percentage.
AnyPercents == PercentValues \cup {-5, 101}

WorkSendsAny == \E v \in AnyPercents : WorkSend(v)

\* Do is called again with a context that is not cancelled.
DoAgain == NextDo(FALSE)

\* Successive invocations on a context that is never cancelled, each ending
\* before its first heartbeat is due.
SuccessiveNext ==
    \/ CoordSelect
    \/ ReportAnswers
    \/ CoordStop
    \/ WorkFinishes
    \/ HbStart
    \/ HbSelect
    \/ WorkSendsAny
    \/ ForwarderCompare
    \/ UpdateAnswersKept
    \/ DoAgain

SuccessiveInit ==
    /\ HeartbeatInterval = 1
    /\ CancellationTimeout = 1
    /\ parentDone = FALSE
    /\ Started

SuccessiveSpec == SuccessiveInit /\ [][SuccessiveNext]_vars

\* The scheduler runs every goroutine that can run, calls to the reporting
\* endpoint return, timers fire and time passes; select picks uniformly at random
\* among ready cases, so the stop case is not passed over forever.  Nothing is
\* assumed of the work function or of the caller's context.
FairSpec ==
    /\ Spec
    /\ WF_vars(CoordSelect)
    /\ WF_vars(CoordHandleCancellation)
    /\ WF_vars(TimerFire)
    /\ WF_vars(ReportAnswers)
    /\ WF_vars(HbStart)
    /\ WF_vars(HbSelect)
    /\ WF_vars(HeartbeatAnswers)
    /\ WF_vars(Tick)
    /\ SF_vars(CoordStop)
    /\ SF_vars(HbSelect /\ cpc' = "done")

\* One call of one operation of a Client made by NewClient.
ClientInit ==
    /\ HeartbeatInterval = 1
    /\ CancellationTimeout = 1
    /\ parentDone = FALSE
    /\ Started

ClientCalls == \E c \in Calls : ClientCall(c)
TokenAnswers == \E t \in TokenResults : TokenReturn(t)
OperationAnswers == \E a \in ApiAnswers : OperationReturn(a)

ClientNext ==
    \/ ClientCalls
    \/ TokenAnswers
    \/ OperationAnswers

ClientSpec == ClientInit /\ [][ClientNext]_vars

\* Constructor calls made one after the other in one process.
ConstructInit ==
    /\ HeartbeatInterval = 1
    /\ CancellationTimeout = 1
    /\ parentDone = FALSE
    /\ Started

NewClients == \E valid \in BOOLEAN : NewClient(valid)
NewClientsWithRetry == \E t \in RetryTimeouts, valid \in BOOLEAN : NewClientWithRetry(t, valid)

ConstructNext ==
    \/ NewClients
    \/ NewClientsWithRetry

ConstructSpec == ConstructInit /\ [][ConstructNext]_vars

\* Goroutines that call Do on one Worker, made with a Logger or without.
EntryInit ==
    /\ HeartbeatInterval = 1
    /\ CancellationTimeout = 1
    /\ parentDone = FALSE
    /\ Invoked
    /\ variant = "part_001"
    /\ Logger \in {NoLogger, GivenLogger}

EntryNext ==
    \E c \in Callers :
        \/ CallDo(c)
        \/ CheckLogger(c)
        \/ AssignLogger(c)
        \/ SetHandler(c)
        \/ DeriveWorkLog(c)

EntrySpec == EntryInit /\ [][EntryNext]_vars

\* ------------------------------------------------------------ the claims

Returned == cpc = "done"
WorkReturned == wout # NotReturned
Issued(i) == reports[i]
IsCancelled(r) == r.op = "CompleteCancelledActivity" /\ r.reason = cancelledReason
IsSuccess(r, result) == r.op = "CompleteSuccessfulActivity" /\ r.result = result
IsFailed(r, err) ==
    r.op = "CompleteFailedActivity" /\ r.reason = ErrorString(err) /\ r.details = ""

\* C1: at most one terminal report call is ever issued in an invocation, and
\* exactly one has been issued whenever Do has returned.
C1_OneTerminalReport ==
    /\ Len(reports) <= 1
    /\ Returned => Len(reports) = 1

\* C1 witness: Do has returned after each kind of determining event was possible;
\* here the grace timeout came first and its one report was issued.
C1_Witness ==
    /\ Returned
    /\ sel = <<"ctxDone", "timeout">>
    /\ Len(reports) = 1

\* C2 as stated: f returned (result, nil) while childCtx was not cancelled, so
\* the only report is one success report carrying that result.
C2_Original ==
    (WorkReturned /\ wout.err = NilErr /\ ~wRetCancelled) =>
        /\ \A i \in 1..Len(reports) : IsSuccess(Issued(i), wout.result)
        /\ Returned => Len(reports) = 1

\* C2 amended: f returned (result, nil) while childCtx was not cancelled.  Then
\* exactly one terminal report is issued and it is never a failure report.  It is
\* the success report carrying that result whenever childCtx is not cancelled
\* before the coordinator takes its select case; if cancellation is triggered
\* after f returned and before that, the coordinator may take the ctx.Done case
\* instead and the one report is a cancellation report.
C2_SuccessUnlessCancelledFirst ==
    (WorkReturned /\ wout.err = NilErr /\ ~wRetCancelled) =>
        /\ Len(reports) <= 1
        /\ Returned => Len(reports) = 1
        /\ \A i \in 1..Len(reports) :
             \/ IsSuccess(Issued(i), wout.result)
             \/ IsCancelled(Issued(i)) /\ sel[1] = "ctxDone" /\ childDone
        /\ ~childDone => \A i \in 1..Len(reports) : IsSuccess(Issued(i), wout.result)

\* C2 witness: f returned a non-nil result with no cancellation, the success
\* report carrying it was issued, and Do has returned.
C2_Witness ==
    /\ Returned
    /\ wout.err = NilErr /\ wout.result = "the result" /\ ~wRetCancelled
    /\ ~childDone
    /\ Len(reports) = 1 /\ IsSuccess(Issued(1), "the result")

\* C3 as stated: f returned a non-nil error while childCtx was not cancelled, so
\* the only report is one failure report with the error's message as reason and
\* empty details.
C3_Original ==
    (WorkReturned /\ wout.err # NilErr /\ ~wRetCancelled) =>
        /\ \A i \in 1..Len(reports) : IsFailed(Issued(i), wout.err)
        /\ Returned => Len(reports) = 1

\* C3 amended: f returned a non-nil error while childCtx was not cancelled.  Then
\* exactly one terminal report is issued and it is never a success report.  It is
\* the failure report (reason the error's message, details empty) whenever
\* childCtx is not cancelled before the coordinator takes its select case; if
\* cancellation is triggered after f returned and before that, the coordinator
\* may take the ctx.Done case instead and the one report is a cancellation report.
C3_FailureUnlessCancelledFirst ==
    (WorkReturned /\ wout.err # NilErr /\ ~wRetCancelled) =>
        /\ Len(reports) <= 1
        /\ Returned => Len(reports) = 1
        /\ \A i \in 1..Len(reports) :
             \/ IsFailed(Issued(i), wout.err)
             \/ IsCancelled(Issued(i)) /\ sel[1] = "ctxDone" /\ childDone
        /\ ~childDone => \A i \in 1..Len(reports) : IsFailed(Issued(i), wout.err)

\* C3 witness: f returned an error with no cancellation, the failure report with
\* its message was issued, and Do has returned.
C3_Witness ==
    /\ Returned
    /\ wout.err = 1 /\ ~wRetCancelled
    /\ ~childDone
    /\ Len(reports) = 1 /\ IsFailed(Issued(1), 1)

\* The child context was cancelled by a heartbeat response and by nothing else
\* when f returned, and the coordinator received what the work goroutine sent
\* (so f returned before the grace timeout ran out).
ReturnedAfterHeartbeatCancel ==
    /\ WorkReturned
    /\ wRetCancelled
    /\ hbCancelSeen
    /\ ~parentDone
    /\ wpc = "exited"

\* C4: a heartbeat response asked for cancellation and f then returned (_, nil)
\* within the grace timeout: the only terminal report is one cancellation report
\* with reason "Cancel requested" and details "Work completed successfully".
C4_CancelledCompleted ==
    (ReturnedAfterHeartbeatCancel /\ wout.err = NilErr) =>
        /\ Len(reports) = 1
        /\ IsCancelled(Issued(1))
        /\ Issued(1).details = completedMessage

\* C5: a heartbeat response asked for cancellation and f then returned a non-nil
\* error within the grace timeout: the only terminal report is one cancellation
\* report whose details are the error's message; no failure report is issued.
C5_CancelledWithError ==
    (ReturnedAfterHeartbeatCancel /\ wout.err # NilErr) =>
        /\ Len(reports) = 1
        /\ IsCancelled(Issued(1))
        /\ Issued(1).details = ErrorString(wout.err)

\* The grace timeout handleCancellation is specified to wait.
GraceTimeout ==
    IF CancellationTimeout > 0 THEN CancellationTimeout ELSE defaultCancellationTimeout

IsTimeoutReport(r) == IsCancelled(r) /\ r.details = timeoutErrorMessage

\* C6: when the coordinator has stopped waiting while what f returns (if it ever
\* returns) has not been received, i.e. f did not return within the grace
\* timeout, exactly one report has been issued, the cancellation report with
\* details "Work cancelled after timeout"; that report is issued only once the
\* whole CancellationTimeout has passed in the cancellation sub-protocol, and
\* while f has not returned.
C6_CancelledAfterTimeout ==
    /\ (cpc \in {"reporting", "stopSend", "done"} /\ wpc # "exited") =>
          Len(reports) = 1 /\ IsTimeoutReport(Issued(1))
    /\ \A i \in 1..Len(reports) :
          (~Issued(i).workReturned \/ Issued(i).details = timeoutErrorMessage) =>
              /\ IsTimeoutReport(Issued(i))
              /\ Issued(i).elapsed >= GraceTimeout
              /\ ~Issued(i).workReturned
              /\ sel = <<"ctxDone", "timeout">>

\* C6 witness: a heartbeat response cancelled childCtx, f never returned, and Do
\* has returned after the timeout report.
C6_Witness ==
    /\ Returned
    /\ hbCancelSeen /\ ~parentDone
    /\ wpc = "running"
    /\ Len(reports) = 1 /\ IsTimeoutReport(Issued(1))
    /\ Issued(1).elapsed = GraceTimeout

\* C7: once childCtx is cancelled, Do eventually returns, whatever f does, and
\* the coordinator never waits for f in the cancellation sub-protocol for longer
\* than the grace timeout.
C7_ReturnsAfterCancel ==
    /\ childDone ~> Returned
    /\ [](cpc = "cancelParked" => graceElapsed <= GraceTimeout)

\* C7 witness: childCtx was cancelled, f has still not returned, Do has returned.
C7_Witness == childDone /\ wpc = "running" /\ Returned

\* The select case that leads to a report call.
Determines(r) ==
    CASE r.op = "CompleteFailedActivity" -> sel = <<"ec">>
      [] r.op = "CompleteSuccessfulActivity" -> sel = <<"rc">>
      [] r.op = "CompleteCancelledActivity" ->
            Len(sel) = 2 /\ sel[1] = "ctxDone" /\ sel[2] \in {"ec", "rc", "timeout"}

\* C8: no report is issued before its determining event; the report call has
\* returned before the coordinator sends on stop; Do returns only once the
\* heartbeat loop has received the stop signal.
C8_ReportOrdering ==
    /\ \A i \in 1..Len(reports) : Determines(Issued(i))
    /\ cpc \in {"select", "parked", "cancelEntry", "cancelParked"} => reports = <<>>
    /\ cpc = "reporting" => Len(reports) = 1 /\ reportErr = "none"
    /\ cpc \in {"stopSend", "done"} => Len(reports) = 1 /\ reportErr # "none"
    /\ Returned => hpc = "exited"

\* C8 witness: the coordinator is blocked sending on stop, its report call having
\* returned, while a heartbeat request is still in flight.
C8_Witness == cpc = "stopSend" /\ hpc = "calling" /\ reportErr # "none"

\* C9: once Do has returned no heartbeat call is issued, and the heartbeat loop
\* exits only by receiving the stop signal, in the step in which Do returns.
C9_NoHeartbeatAfterReturn ==
    [][/\ Returned => (hbCalls' = hbCalls /\ hpc = "exited" /\ hpc' = "exited")
       /\ (hpc # "exited" /\ hpc' = "exited") => (cpc = "stopSend" /\ cpc' = "done")
       /\ (hpc # "calling" /\ hpc' = "calling") => cpc # "done"]_vars

\* C9 witness: heartbeats were sent, and Do has returned.
C9_Witness == Returned /\ hbCalls >= 1 /\ hpc = "exited"

\* C10: a heartbeat call that returns a transport error leaves the loop at its
\* select, leaves childCtx, the coordinator and the reports as they were, and the
\* next tick sends another heartbeat.
C10_HeartbeatErrorIgnored ==
    [][/\ \A resp \in HeartbeatResponses :
            (TransportError(resp) /\ HbReturn(resp)) =>
                /\ hpc' = "select"
                /\ UNCHANGED <<childDone, parentDone, cpc, sel, reports, reportErr, wpc>>
       /\ (hbErrCalls > 0 /\ hpc = "parked" /\ hbLeft = 1 /\ hbLeft' # 1 /\ hpc' # "exited")
            => hpc' = "calling"
       /\ (hbErrCalls > 0 /\ hpc = "select" /\ tickBuf /\ hpc' # "select" /\ hpc' # "exited")
            => hpc' = "calling"
       /\ (hpc' = "exited" /\ hpc # "exited") => cpc' = "done"]_vars

\* C10 witness: a heartbeat returned a transport error, a later heartbeat was
\* sent, childCtx was never cancelled and the success report was issued.
C10_Witness ==
    /\ hbErrCalls = 1 /\ hbCalls = 2
    /\ ~childDone
    /\ Returned
    /\ Len(reports) = 1 /\ Issued(1).op = "CompleteSuccessfulActivity"

\* seq with every value that equals the value before it (prev, for the first
\* one) left out.
RECURSIVE CollapseAfter(_, _)
CollapseAfter(prev, seq) ==
    IF seq = <<>>
       THEN <<>>
       ELSE IF Head(seq) = prev
               THEN CollapseAfter(prev, Tail(seq))
               ELSE <<Head(seq)>> \o CollapseAfter(Head(seq), Tail(seq))

\* seq with each run of consecutive equal values collapsed to one value.
CollapseRuns(seq) ==
    IF seq = <<>> THEN <<>> ELSE <<Head(seq)>> \o CollapseAfter(Head(seq), Tail(seq))

\* seq without its leading run of v.
RECURSIVE DropLeading(_, _)
DropLeading(v, seq) ==
    IF seq # <<>> /\ Head(seq) = v THEN DropLeading(v, Tail(seq)) ELSE seq

\* The values received that the loop body has dealt with: all of them, but for
\* one just received and not yet compared.
Handled ==
    IF fpc = "received" THEN SubSeq(received, 1, Len(received) - 1) ELSE received

\* C11 as stated: the values passed to UpdateActivityPercentComplete are the
\* values received with each run of consecutive equal values collapsed to one,
\* in order, whatever the values are.
C11_Original == updates = CollapseRuns(Handled)

\* C11 amended: the values passed to UpdateActivityPercentComplete are the
\* values received with each run of consecutive equal values collapsed to one,
\* in order, except that a leading run of -1 (the value lastPercentComplete
\* starts with) is not forwarded at all.
C11_ForwardsCollapsedRuns == updates = CollapseRuns(DropLeading(-1, Handled))

\* C11 witness: 30 was received twice in a row and forwarded once.
C11_Witness == received = <<30, 30>> /\ updates = <<30>> /\ fpc = "range"

\* C12: when Do has returned after the success report, every value f sent that
\* differs from the value sent just before it has been passed to
\* UpdateActivityPercentComplete (no -1 among them, for which see C11).
C12_ProgressForwardedAtReturn ==
    (/\ Returned
     /\ Len(reports) = 1 /\ Issued(1).op = "CompleteSuccessfulActivity"
     /\ \A i \in 1..Len(received) : received[i] # -1) =>
        updates = CollapseRuns(received)

\* C13: a terminal report call that returns a transport error is followed by
\* the send on stop and by nothing else: no further report is issued, the select
\* case taken stays the one taken, and Do returns.
C13_ReportErrorOnlyLogged ==
    /\ [](reportErr = "error" => (Len(reports) = 1 /\ cpc \in {"stopSend", "done"}))
    /\ [][ReportReturn("error") =>
            (cpc' = "stopSend" /\ reports' = reports /\ sel' = sel)]_vars
    /\ [][reportErr = "error" =>
            (reports' = reports /\ sel' = sel /\ reportErr' = reportErr
             /\ cpc' \in {"stopSend", "done"})]_vars
    /\ (reportErr = "error") ~> Returned

\* C13 witness: each kind of terminal report can be the one that failed; here the
\* cancellation report returned an error and Do has returned.
C13_Witness ==
    /\ Returned
    /\ reportErr = "error"
    /\ Len(reports) = 1 /\ Issued(1).op = "CompleteCancelledActivity"

\* C14: childCtx is cancelled only if a heartbeat response had Cancelled = true
\* or the caller's context is cancelled; it becomes cancelled only in the step
\* in which such a response is received or the caller cancels (never in a step
\* of the coordinator); once cancelled it stays cancelled.
C14_CancelledOnlyByHeartbeatOrParent ==
    /\ [](childDone => (hbCancelSeen \/ parentDone))
    /\ [][childDone => childDone']_vars
    /\ [][(~childDone /\ childDone') =>
            \/ hpc = "calling" /\ hbCancels' = hbCancels + 1 /\ cpc' \in {cpc, "cancelEntry"}
            \/ ~parentDone /\ parentDone' /\ cpc' \in {cpc, "cancelEntry"}]_vars

\* C14 witness: Do has returned after a success report without childCtx ever
\* being cancelled, heartbeats having been answered without Cancelled = true.
C14_Witness ==
    /\ Returned
    /\ ~childDone /\ ~parentDone /\ ~hbCancelSeen
    /\ hbCalls >= 1
    /\ Len(reports) = 1 /\ Issued(1).op = "CompleteSuccessfulActivity"

\* C15: when childCtx is already cancelled as the coordinator takes its first
\* select case, that case is ctx.Done, and so the terminal report is a
\* cancellation report, even if f's error or result is ready as well.
C15_CancellationTakesPrecedence ==
    /\ [][(sel = <<>> /\ sel' # <<>> /\ childDone) =>
            (sel'[1] = "ctxDone" /\ reports' = <<>>)]_vars
    /\ []((sel # <<>> /\ sel[1] = "ctxDone") =>
            \A i \in 1..Len(reports) : IsCancelled(Issued(i)))

\* C16: the caller's context was cancelled, and no heartbeat response asked for
\* cancellation, before the coordinator took its first select case: childCtx is
\* cancelled, the coordinator enters handleCancellation, and the one terminal
\* report is a cancellation report with reason "Cancel requested" and one of the
\* three details.
C16_ParentCancelHandledAsCancel ==
    /\ [](parentDone => childDone)
    /\ [][(sel = <<>> /\ sel' # <<>> /\ parentDone /\ hbCancels = 0) =>
            (sel'[1] = "ctxDone" /\ cpc' = "cancelEntry")]_vars
    /\ []((sel # <<>> /\ sel[1] = "ctxDone" /\ parentDone /\ hbCancels = 0) =>
            \A i \in 1..Len(reports) :
               /\ IsCancelled(Issued(i))
               /\ Issued(i).details \in
                     {timeoutErrorMessage, completedMessage} \cup
                     {ErrorString(err) : err \in Errors})

\* C17: once a heartbeat response has asked for cancellation, the context the
\* caller passed to Do is cancelled.
C17_HeartbeatCancelClosesParent == hbCancelSeen => parentDone

\* C18: once f has returned the coordinator closes pc and the forwarder ends:
\* when Do has returned and the work goroutine has exited, so that nothing is
\* left to send on pc or to close it, the forwarder is not waiting at its range
\* for a value from pc.
C18_ForwarderTerminates ==
    (Returned /\ wpc = "exited") => fpc # "range"

\* C19: a work goroutine abandoned by the grace timeout exits once f returns:
\* Do never returns after a timeout leaving that goroutine, f having returned,
\* blocked in its send on ec or rc, which nothing will receive from any more.
C19_AbandonedWorkExits ==
    (Returned /\ sel = <<"ctxDone", "timeout">> /\ WorkReturned) => wpc = "exited"

Configured(d) == IF d > 0 THEN d ELSE Minute

\* C24: the ticker is made with, and fires every, HeartbeatInterval when that is
\* positive and one minute otherwise; the grace timer is started with
\* CancellationTimeout when that is positive and with one minute otherwise.
C24_ConfigurationDefaults ==
    /\ [][(hpc = "init" /\ hpc' # "init") =>
            hbLeft' = Configured(HeartbeatInterval)]_vars
    /\ [][(hpc # "init" /\ hpc' # "exited" /\ hbLeft' # hbLeft /\ hbLeft' # hbLeft - 1) =>
            hbLeft' = Configured(HeartbeatInterval)]_vars
    /\ [][(cpc # "cancelParked" /\ cpc' = "cancelParked") =>
            (graceLeft' = Configured(CancellationTimeout) /\ graceElapsed' = 0)]_vars
    /\ [](hpc \notin {"init", "exited"} =>
            (hbLeft >= 1 /\ hbLeft <= Configured(HeartbeatInterval)))

\* C24 witness: a negative HeartbeatInterval and a zero CancellationTimeout; the
\* ticker and the grace timer have just been started with one minute each.
C24_Witness ==
    /\ HeartbeatInterval = -1 /\ CancellationTimeout = 0
    /\ cpc = "cancelParked" /\ graceElapsed = 0 /\ graceLeft = Minute
    /\ hpc = "select" /\ hbLeft = Minute

\* C21: the grace timer is started once, on entry to the inner select, and runs
\* down to the grace timeout whatever happens meanwhile: a progress value
\* received or a heartbeat sent or answered while the coordinator waits there
\* leaves the deadline where it was, the coordinator never waits past it, and
\* the timeout report is issued when exactly the grace timeout has elapsed.
C21_GraceDeadlineFixed ==
    /\ [](cpc = "cancelParked" =>
            (graceLeft >= 0 /\ graceLeft + graceElapsed = GraceTimeout))
    /\ [](\A i \in 1..Len(reports) :
            IsTimeoutReport(Issued(i)) => Issued(i).elapsed = GraceTimeout)
    /\ [][(/\ cpc = "cancelParked" /\ cpc' = "cancelParked"
           /\ (received' # received \/ updates' # updates \/ hpc' # hpc)) =>
              (/\ graceLeft' + graceElapsed' = graceLeft + graceElapsed
               /\ graceElapsed' >= graceElapsed)]_vars

\* C21 witness: f sent a progress value during the grace window and has not
\* returned, heartbeats were sent, and the timeout report has been issued at the
\* deadline.
C21_Witness ==
    /\ cpc = "reporting"
    /\ wpc = "running"
    /\ Len(received) > graceReceived
    /\ hbCalls >= 1
    /\ Len(reports) = 1 /\ IsTimeoutReport(Issued(1))
    /\ Issued(1).elapsed = GraceTimeout

\* The terminal report has been issued and Do has not returned yet.
ReportIssued == reports # <<>> /\ cpc \in {"reporting", "stopSend"}

\* The next step of the heartbeat loop can be a HeartbeatActivityWithToken call.
CanSendHeartbeat ==
    \/ ENABLED (HbSelect /\ hpc' = "calling")
    \/ ENABLED (Tick /\ hpc' = "calling")

\* The next step of the forwarder can be an UpdateActivityPercentComplete call.
CanSendUpdate == ENABLED (ForwarderCompare /\ fpc' = "calling")

\* C22: nothing orders the heartbeat loop or the forwarder after the terminal
\* report.  Once the report is issued, a heartbeat loop holding a tick can
\* still send its heartbeat, also when the stop signal is offered already; and
\* a forwarder holding a new progress value can still send its update, also
\* when Do has returned.
C22_LateCallsNotExcluded ==
    /\ (ReportIssued /\ hpc = "select" /\ tickBuf) => CanSendHeartbeat
    /\ (ReportIssued /\ hpc = "parked" /\ hbLeft = 1) => CanSendHeartbeat
    /\ (reports # <<>> /\ fpc = "received"
          /\ percentComplete # lastPercentComplete) => CanSendUpdate

\* C22 witness: the terminal report has returned and Do offers the stop signal,
\* while the heartbeat loop is at its select with a tick to take and the
\* forwarder holds a value it has not forwarded.
C22_Witness ==
    /\ cpc = "stopSend" /\ reports # <<>>
    /\ hpc = "select" /\ tickBuf
    /\ fpc = "received" /\ percentComplete # lastPercentComplete
    /\ CanSendHeartbeat /\ CanSendUpdate

\* C22, after Do has returned: the forwarder holds a value it has not forwarded
\* and its next step is the update call.
C22_AfterReturn ==
    /\ Returned
    /\ fpc = "received" /\ percentComplete # lastPercentComplete
    /\ CanSendUpdate

\* f returned when at least one and less than two heartbeat intervals had
\* elapsed since Do started, nothing was cancelled, and Do has returned.
RanOneInterval ==
    /\ Returned /\ ~childDone /\ WorkReturned
    /\ wRetAt >= Configured(HeartbeatInterval)
    /\ wRetAt < 2 * Configured(HeartbeatInterval)

ClientReturned == kpc = "returned"

\* C25: whatever the operation, if the token fetcher returns an error the
\* operation returns that very error with no result ("" from StartWorkflow, nil
\* from the others), and the generated client is never called.
C25_TokenErrorReturned ==
    (tokenResult.err \in Errors) =>
        /\ ClientReturned
        /\ ret = [result |-> ZeroResult(call.op), err |-> tokenResult.err]
        /\ requests = <<>>

\* C25 witness: StartWorkflow has returned the token fetcher's error.
C25_Witness ==
    /\ call.op = "StartWorkflow"
    /\ tokenResult.err = 2
    /\ ClientReturned /\ ret.err = 2 /\ ret.result = ""

\* The API answered the request with an error status.
ErrorStatus == ~answer.transport /\ answer.status >= 400 /\ answer.status < 600

\* C26: whatever the operation, when the token was fetched and the API answered
\* with an error status, the operation returns an error and no result.
C26_ApiErrorReturned ==
    (ClientReturned /\ tokenResult.err = NilErr /\ ErrorStatus) =>
        /\ ret.err # NilErr
        /\ ret.result = ZeroResult(call.op)

\* C26 witness: HeartbeatActivityWithToken has returned after the API answered 500.
C26_Witness ==
    /\ call.op = "HeartbeatActivityWithToken"
    /\ ClientReturned /\ Len(requests) = 1
    /\ answer.status = 500
    /\ ret.err # NilErr /\ ret.result = Nil

\* The request the operation in progress has handed to the generated client.
Sent(op) == call.op = op /\ requests # <<>>
SentBody == requests[1].params.body

\* The character a \uXXXX escape stands for.
CodePoint(hex) == IF hex = <<"0", "0", "3", "c">> THEN "<" ELSE "?"

\* A JSON string's characters, its escapes undone.
RECURSIVE Unescape(_)
Unescape(e) ==
    IF e = <<>> THEN <<>>
    ELSE IF Head(e) # "\\" THEN <<Head(e)>> \o Unescape(Tail(e))
    ELSE IF e[2] = "u"
            THEN <<CodePoint(SubSeq(e, 3, 6))>> \o Unescape(SubSeq(e, 7, Len(e)))
            ELSE <<e[2]>> \o Unescape(SubSeq(e, 3, Len(e)))

Unquote(q) == Unescape(SubSeq(q, 2, Len(q) - 1))

\* The value a JSON text stands for: null, a string, or an object with the
\* one member Foo.
JSONValue(text) ==
    IF text = <<"n", "u", "l", "l">> THEN GoNil
    ELSE IF Head(text) = "\"" THEN [kind |-> "string", s |-> Unquote(text)]
    ELSE IF SubSeq(text, 1, 7) = <<"{", "\"", "F", "o", "o", "\"", ":">>
                /\ text[Len(text)] = "}"
            THEN [kind |-> "struct", s |-> Unquote(SubSeq(text, 8, Len(text) - 1))]
            ELSE [kind |-> "invalid", s |-> <<>>]

\* C27: the update CompleteSuccessfulActivity sends is for the given activity
\* ID, has status Completed, PercentComplete 100 and no error object, and its
\* Result is a JSON text that stands for the result passed in.
C27_CompletedActivitySent ==
    Sent("CompleteSuccessfulActivity") =>
        /\ Len(requests) = 1
        /\ requests[1].params.operation = "UpdateActivity"
        /\ requests[1].params.ActivityID = call.activityID
        /\ SentBody.ID = call.activityID
        /\ SentBody.Status = "Completed"
        /\ SentBody.PercentComplete = 100
        /\ SentBody.Error.isNil
        /\ JSONValue(SentBody.Result) = call.result

\* C27 witness: a struct whose string holds a quote was sent as the result of
\* activity-2, and the operation has returned the API's payload.
C27_Witness ==
    /\ Sent("CompleteSuccessfulActivity")
    /\ call.activityID = "activity-2"
    /\ call.result = [kind |-> "struct", s |-> <<"a", "\"">>]
    /\ SentBody.PercentComplete = 100
    /\ ClientReturned /\ ret.err = NilErr

\* C28: the update CompleteCancelledActivity sends has status Cancelled and the
\* one CompleteFailedActivity sends has status Failed; each is for the given
\* activity ID and carries an error object with the reason as its Reason and
\* the details as its Details.
C28_CancelledAndFailedSent ==
    \A op \in {"CompleteCancelledActivity", "CompleteFailedActivity"} :
        Sent(op) =>
            /\ Len(requests) = 1
            /\ requests[1].params.operation = "UpdateActivity"
            /\ requests[1].params.ActivityID = call.activityID
            /\ SentBody.ID = call.activityID
            /\ SentBody.Status =
                  (IF op = "CompleteCancelledActivity" THEN "Cancelled" ELSE "Failed")
            /\ ~SentBody.Error.isNil
            /\ SentBody.Error.Reason = call.reason
            /\ SentBody.Error.Details = call.details

\* C28 witness: a cancellation with distinct reason and details was sent.
C28_Witness ==
    /\ Sent("CompleteCancelledActivity")
    /\ call.reason = cancelledReason /\ call.details = timeoutErrorMessage
    /\ SentBody.Error.Reason = cancelledReason
    /\ SentBody.Error.Details = timeoutErrorMessage

\* C29: the update UpdateActivityPercentComplete sends has status Running, no
\* error object, and a PercentComplete equal to the int passed in.
C29_PercentCompleteSent ==
    Sent("UpdateActivityPercentComplete") =>
        /\ SentBody.ID = call.activityID
        /\ SentBody.Status = "Running"
        /\ SentBody.Error.isNil
        /\ Int64(SentBody.PercentComplete) = call.percentComplete

\* C31: in worker.go, a heartbeat response asked for cancellation and f then
\* returned (nil, nil) within the grace timeout: CompleteCancelledActivity is
\* the only terminal call and the text passed with it is the empty string.
C31_CancelledWithEmptyText ==
    (variant = "worker.go" /\ ReturnedAfterHeartbeatCancel /\ wout = [result |-> Nil, err |-> NilErr]) =>
        /\ Len(reports) = 1
        /\ Issued(1).op = "CompleteCancelledActivity"
        /\ Issued(1).details = ""

\* C32: lastPercentComplete starts at -1 on every Do call: in an invocation
\* after the first, it is -1 until a value has been dealt with, and a first value
\* equal to the last value the invocation before forwarded is forwarded again.
C32_MarkerStartsAnew ==
    invocation > 1 =>
        /\ (Handled = <<>> => lastPercentComplete = -1)
        /\ (Handled # <<>> /\ prevLast # -1 /\ Handled[1] = prevLast) =>
               (updates # <<>> /\ updates[1] = prevLast)

\* The invocation before forwarded 30 last; this one received 30 first and
\* has passed it to UpdateActivityPercentComplete.
C32_Witness ==
    /\ invocation = 2
    /\ prevLast = 30
    /\ received = <<30>>
    /\ updates = <<30>>
    /\ lastPercentComplete = 30

\* C34: a value is recorded as lastPercentComplete when its
\* UpdateActivityPercentComplete call returned an error as when it returned
\* none, and a value received next that equals the one passed last, its call
\* failed or not, leads to no further call.
C34_FailedUpdateRemembered ==
    [][/\ updateErr' = "error" => lastPercentComplete' = updates'[Len(updates')]
       /\ (fpc = "received" /\ updates # <<>> /\ percentComplete = updates[Len(updates)]) =>
              (updates' = updates /\ fpc' # "calling")]_vars

\* The call for 30 returned an error, 30 is recorded, and f has sent 30 again.
C34_Witness ==
    /\ updateErr = "error"
    /\ lastPercentComplete = 30
    /\ received = <<30, 30>>
    /\ updates = <<30>>
    /\ fpc = "received"

\* C35: the first value received in an invocation is passed to
\* UpdateActivityPercentComplete exactly when it is not -1, whatever else it
\* is: a first -1 leads to no call, any other first value is the first value
\* passed.
C35_FirstValueForwardedUnlessSentinel ==
    Handled # <<>> =>
        IF Handled[1] = -1
           THEN Len(updates) <= Len(Handled) - 1
           ELSE updates # <<>> /\ updates[1] = Handled[1]

\* The first value was above 100 and was passed on; the second was below 0
\* and was passed on as well.
C35_Witness ==
    /\ received = <<101, -5>>
    /\ updates = <<101, -5>>
    /\ fpc = "range"

\* C33: concurrent Do calls on one Worker write no common variable: of the
\* calls made on a Worker, at most one assigns Worker.Logger.
C33_LoggerWrittenOnce == Cardinality(loggerWrites) <= 1

\* The timeout of the last NewClientWithRetry call that built a client, the
\* library's default if there was none.
RECURSIVE LastRetryTimeout(_)
LastRetryTimeout(seq) ==
    IF seq = <<>>
       THEN LibraryDefault
       ELSE IF seq[Len(seq)].retry /\ ~seq[Len(seq)].panicked
               THEN seq[Len(seq)].timeout
               ELSE LastRetryTimeout(SubSeq(seq, 1, Len(seq) - 1))

\* C39: openapiclient.DefaultTimeout is the retryTimeout of the last
\* NewClientWithRetry call that built a client, whatever NewClient calls came
\* after it, and the library's default only while no such call was made.
C39_DefaultTimeoutKept == DefaultTimeout = LastRetryTimeout(clients)

\* NewClientWithRetry was called with 5 seconds, then NewClient built a client.
C39_Witness ==
    /\ Len(clients) = 2
    /\ clients[1].retry /\ clients[1].timeout = 5 /\ ~clients[1].panicked
    /\ ~clients[2].retry /\ ~clients[2].panicked
    /\ DefaultTimeout = 5

\* C36: Do does not return while a HeartbeatActivityWithToken call is in
\* flight: a coordinator blocked in its send on stop stays blocked, its report
\* issued, in every step taken while the call is in flight, the call ends only
\* by returning, and the step in which Do returns is taken with the heartbeat
\* loop at its select.
C36_NoReturnWhileHeartbeatInFlight ==
    [][/\ (hpc = "calling" /\ cpc = "stopSend") => (cpc' = "stopSend" /\ reports' = reports)
       /\ (hpc = "calling" /\ hpc' # "calling") => HeartbeatAnswers
       /\ (cpc # "done" /\ cpc' = "done") => (hpc \in {"select", "parked"} /\ hpc' = "exited")]_vars

\* The terminal report was issued and answered after f returned, the second
\* heartbeat call is in flight, and Do is blocked in its send on stop.
C36_Witness ==
    /\ cpc = "stopSend"
    /\ hpc = "calling"
    /\ hbCalls = 2
    /\ wpc = "exited"
    /\ Len(reports) = 1

\* C38: when a HeartbeatActivityWithToken call returns, childCtx is cancelled
\* afterwards exactly if it was before or the call returned a record that is not
\* nil and has Cancelled = true, whatever error came with it: a nil record
\* cancels nothing, and such a record cancels even with an error.
C38_CancelsOnCancelledRecordOnly ==
    [][\A resp \in HeartbeatResponses :
          HbReturn(resp) =>
              (childDone' <=> (childDone \/ (~resp.hb.isNil /\ resp.hb.Cancelled)))]_vars

\* The first heartbeat call has just returned a record with Cancelled = true,
\* which cancelled childCtx while the caller's context is not cancelled.
C38_Witness ==
    /\ childDone /\ ~parentDone
    /\ hbCalls = 1 /\ hbCancels = 1
    /\ hpc = "select"
    /\ reports = <<>>

IsReceipt(c) == c \in {"ec", "rc"}

\* The select cases taken that received a value from ec or rc.
Receipts == SelectSeq(sel, IsReceipt)

\* C40: the work goroutine sends once f has returned and at most once, on ec
\* if f's error is not nil and on rc otherwise; the coordinator receives at
\* most one value from ec and rc together, the one sent, and the step in which
\* it receives is the step in which the terminal report call is issued.
C40_OneSendOneReceipt ==
    [][/\ Len(Receipts') <= 1
       /\ wpc' = "running" <=> ~WorkReturned'
       /\ wpc' = "exited" <=> Len(Receipts') = 1
       /\ Receipts' # <<>> => Receipts'[1] = (IF wout'.err # NilErr THEN "ec" ELSE "rc")
       /\ wpc = "exited" => (wpc' = "exited" /\ wout' = wout /\ Receipts' = Receipts)
       /\ Receipts' # Receipts => (Len(reports') = Len(reports) + 1 /\ cpc' = "reporting")]_vars

\* f returned an error after childCtx was cancelled, and handleCancellation
\* received it from ec: the goroutine's only send is complete.
C40_Witness ==
    /\ sel = <<"ctxDone", "ec">>
    /\ wpc = "exited"
    /\ wout.err # NilErr
    /\ Len(reports) = 1

\* C37: a send on pc cannot deadlock: whatever the coordinator, the heartbeat
\* loop and the timers have done, the forwarder is at its range, where a send
\* by a running f can complete, or it holds a received value and can go on to
\* compare it, or it is inside one UpdateActivityPercentComplete call, which
\* can return.
C37_ForwarderNeverStuck ==
    /\ fpc \in {"range", "received", "calling"}
    /\ fpc = "received" => ENABLED ForwarderCompare
    /\ fpc = "calling" => ENABLED UpdateAnswers
    /\ (fpc = "range" /\ wpc = "running" /\ Len(received) < MaxSends) => ENABLED WorkSends

\* Do has returned after the grace timeout, f still runs, and the forwarder
\* holds a value f sent that it has yet to compare.
C37_Witness ==
    /\ Returned
    /\ IsTimeoutReport(Issued(1))
    /\ wpc = "running"
    /\ fpc = "received"

====
